---- MODULE Spec2Model ----
(***************************************************************************)
(* Model of slack-reminder-bot (src/src/main.rs): main reads its           *)
(* configuration, parses two cron expressions and spawns one run_schedule  *)
(* task per expression; each task pulls occurrences from a cron iterator,  *)
(* sleeps on the monotonic clock until the occurrence and posts a message. *)
(*                                                                         *)
(* Time is counted in whole hours.  Hour 0 is a Sunday 00:00:00 UTC, so    *)
(* the minute and second fields "0 0" of both expressions hold at every    *)
(* instant of the model.  `wall` is what Utc::now() reads, `mono` what     *)
(* Instant::now() reads.  Steps of main and of the tasks take no time;     *)
(* time passes while tasks sleep, while a request is in flight and while   *)
(* main idles.                                                             *)
(***************************************************************************)
EXTENDS Integers, Sequences, FiniteSets, TLC

\* ------------------------------------------------------------------ bounds

\* The calculator's calendar ends with the week of this index (the cron crate's
\* year range is finite): no occurrence lies after the last hour of that week.
LastWeek == 2

\* How many times the wall clock is stepped (NTP, operator) in one execution.
MaxAdjust == 1

\* The wall-clock instants at which the process may be started: Saturday
\* 23:00 of week 0.
StartTimes == {6 * 24 + 23}

\* The sizes of a wall-clock step.
AdjustDeltas == {0 - 1, 1}

Horizon == (LastWeek + 1) * 7 * 24 - 1

MinOf(S) == CHOOSE x \in S : \A y \in S : x <= y

\* The monotonic clock starts at 0 and the model stops it here: late enough
\* for every deadline a task can compute.
MaxMono == Horizon - MinOf(StartTimes) + MaxAdjust + 1

\* ------------------------------------------------------------- vocabulary

NoTime == 0 - 1
NoValue == "<unset>"

Tasks == {"2pm", "10pm"}
Other(r) == IF r = "2pm" THEN "10pm" ELSE "2pm"

EnvNames == {"SLACK_BOT_TOKEN", "SLACK_CHANNEL_ID"}
\* The value each variable holds when it is set.
EnvValue(n) == IF n = "SLACK_BOT_TOKEN" THEN "xoxb-token" ELSE "C1"

reminder_text == "This is your scheduled reminder!"

\* The six fields of a cron expression: sec min hour day-of-month month day-of-week.
cron_expr_2pm == <<"0", "0", "14", "*", "*", "SUN">>
cron_expr_10pm == <<"0", "0", "22", "*", "*", "SUN">>

Outcomes == {"success", "http_error", "transport_error"}
Failures == {"http_error", "transport_error"}

\* ------------------------------------------------- the recurrence calculator

Numerals ==
    <<"0", "1", "2", "3", "4", "5", "6", "7", "8", "9", "10", "11", "12", "13",
      "14", "15", "16", "17", "18", "19", "20", "21", "22", "23">>

DayNames == <<"SUN", "MON", "TUE", "WED", "THU", "FRI", "SAT">>

IndexOf(seq, s) == CHOOSE i \in 1..Len(seq) : seq[i] = s
InSeq(seq, s) == \E i \in 1..Len(seq) : seq[i] = s

NoSchedule == [ok |-> FALSE, hour |-> NoTime, dow |-> NoTime]
NoArgs == [token |-> NoValue, channel |-> NoValue, text |-> NoValue]

\* Schedule::from_str: the parsed schedule, or NoSchedule for a malformed
\* expression.  Of the grammar, the literals and wildcards the two
\* expressions use are modelled.
ScheduleFromStr(expr) ==
    IF /\ Len(expr) = 6
       /\ expr[1] = "0" /\ expr[2] = "0"
       /\ InSeq(Numerals, expr[3])
       /\ expr[4] = "*" /\ expr[5] = "*"
       /\ InSeq(DayNames, expr[6])
    THEN [ok |-> TRUE,
          hour |-> IndexOf(Numerals, expr[3]) - 1,
          dow |-> IndexOf(DayNames, expr[6]) - 1]
    ELSE NoSchedule

DayOfWeek(t) == (t \div 24) % 7
HourOfDay(t) == t % 24

Matches(s, t) == DayOfWeek(t) = s.dow /\ HourOfDay(t) = s.hour

RECURSIVE SearchDayInclusive(_, _, _)
\* Variant: an instant equal to `after` is accepted.
SearchDayInclusive(s, day, after) ==
    LET candidate == day * 24 + s.hour IN
    IF candidate > Horizon THEN NoTime
    ELSE IF day % 7 = s.dow /\ candidate >= after THEN candidate
    ELSE SearchDayInclusive(s, day + 1, after)

RECURSIVE SearchDay(_, _, _)
\* The calculator's search: day by day from the day of `after`, the first day
\* whose weekday matches and whose instant at the schedule's hour is later
\* than `after`; NoTime once the search leaves the calendar.
SearchDay(s, day, after) ==
    LET candidate == day * 24 + s.hour IN
    IF candidate > Horizon THEN NoTime
    ELSE IF day % 7 = s.dow /\ candidate > after THEN candidate
    ELSE SearchDay(s, day + 1, after)

\* Schedule::next_after
NextAfter(s, after) == SearchDay(s, after \div 24, after)

\* ------------------------------------------------------------------- state

VARIABLES
    env,              \* the process environment: variable name -> value or NoValue
    pcMain,           \* where main is
    slack_bot_token,  \* main's locals
    slack_channel_id,
    schedules,        \* task -> parsed schedule (schedule_2pm, schedule_10pm)
    wall,             \* Utc::now()
    mono,             \* Instant::now()
    nAdjust,          \* wall-clock steps so far
    pc,               \* task -> where run_schedule is
    args,             \* task -> the arguments run_schedule was spawned with
    upcoming,         \* task -> the iterator's previous_datetime
    datetime,         \* task -> the occurrence of the current iteration
    instant,          \* task -> the monotonic deadline of the current sleep
    attempts,         \* task -> the requests sent so far, in order
    completed,        \* task -> how many requests have returned
    response,         \* task -> what the request of this iteration returned
    skipped           \* task -> the occurrences reported "in the past. Skipping."

mainVars == <<env, pcMain, slack_bot_token, slack_channel_id, schedules>>
clockVars == <<wall, mono, nAdjust>>
taskVars ==
    <<pc, args, upcoming, datetime, instant, attempts, completed, response, skipped>>
vars == <<mainVars, clockVars, taskVars>>

TaskState(r) ==
    <<pc[r], args[r], upcoming[r], datetime[r], instant[r], attempts[r],
      completed[r], response[r], skipped[r]>>

\* The process at its entry, with the wall clock at one of `starts`.
InitFrom(starts) ==
    /\ env \in {e \in [EnvNames -> {NoValue} \cup {EnvValue(n) : n \in EnvNames}] :
                   \A n \in EnvNames : e[n] \in {NoValue, EnvValue(n)}}
    /\ pcMain = "env"
    /\ slack_bot_token = NoValue
    /\ slack_channel_id = NoValue
    /\ schedules = [r \in Tasks |-> NoSchedule]
    /\ wall \in starts
    /\ mono = 0
    /\ nAdjust = 0
    /\ pc = [r \in Tasks |-> "unspawned"]
    /\ args = [r \in Tasks |-> NoArgs]
    /\ upcoming = [r \in Tasks |-> NoTime]
    /\ datetime = [r \in Tasks |-> NoTime]
    /\ instant = [r \in Tasks |-> NoTime]
    /\ attempts = [r \in Tasks |-> <<>>]
    /\ completed = [r \in Tasks |-> 0]
    /\ response = [r \in Tasks |-> NoValue]
    /\ skipped = [r \in Tasks |-> {}]

Init == InitFrom(StartTimes)

\* -------------------------------------------------------------------- main

\* Variant: unwrap_or_default in place of expect, so main goes on without
\* the variable.
ReadEnvOrDefault ==
    /\ pcMain = "env"
    /\ pcMain' = "parse"
    /\ slack_bot_token' = env["SLACK_BOT_TOKEN"]
    /\ slack_channel_id' = env["SLACK_CHANNEL_ID"]
    /\ UNCHANGED <<env, schedules, clockVars, taskVars>>

\* env::var(..).expect(..), twice: a missing variable panics.
ReadEnv ==
    /\ pcMain = "env"
    /\ IF env["SLACK_BOT_TOKEN"] = NoValue
       THEN /\ pcMain' = "panicked"
            /\ UNCHANGED <<slack_bot_token, slack_channel_id>>
       ELSE IF env["SLACK_CHANNEL_ID"] = NoValue
       THEN /\ pcMain' = "panicked"
            /\ slack_bot_token' = env["SLACK_BOT_TOKEN"]
            /\ UNCHANGED slack_channel_id
       ELSE /\ pcMain' = "parse"
            /\ slack_bot_token' = env["SLACK_BOT_TOKEN"]
            /\ slack_channel_id' = env["SLACK_CHANNEL_ID"]
    /\ UNCHANGED <<env, schedules, clockVars, taskVars>>

\* Schedule::from_str(..).unwrap_or_else(panic), twice.
ParseSchedules ==
    /\ pcMain = "parse"
    /\ LET s2 == ScheduleFromStr(cron_expr_2pm)
           s10 == ScheduleFromStr(cron_expr_10pm) IN
       IF ~ s2.ok
       THEN pcMain' = "panicked" /\ UNCHANGED schedules
       ELSE IF ~ s10.ok
       THEN /\ pcMain' = "panicked"
            /\ schedules' = [schedules EXCEPT !["2pm"] = s2]
       ELSE /\ pcMain' = "spawn_2pm"
            /\ schedules' = [r \in Tasks |-> IF r = "2pm" THEN s2 ELSE s10]
    /\ UNCHANGED <<env, slack_bot_token, slack_channel_id, clockVars, taskVars>>

\* tokio::spawn(run_schedule(..)): first the 2 PM task, then the 10 PM task.
SpawnTask(r) ==
    /\ pcMain = (IF r = "2pm" THEN "spawn_2pm" ELSE "spawn_10pm")
    /\ pcMain' = (IF r = "2pm" THEN "spawn_10pm" ELSE "idle")
    /\ pc' = [pc EXCEPT ![r] = "start"]
    /\ args' = [args EXCEPT ![r] =
                  [token |-> slack_bot_token, channel |-> slack_channel_id,
                   text |-> reminder_text]]
    /\ UNCHANGED <<env, slack_bot_token, slack_channel_id, schedules, clockVars,
                   upcoming, datetime, instant, attempts, completed, response,
                   skipped>>

\* Variant: main awaits the two join handles and returns when both tasks
\* have ended.
MainIdleJoins ==
    /\ pcMain = "idle"
    /\ IF \A r \in Tasks : pc[r] = "done"
       THEN pcMain' = "exited"
       ELSE UNCHANGED pcMain
    /\ UNCHANGED <<env, slack_bot_token, slack_channel_id, schedules, clockVars,
                   taskVars>>

\* loop { sleep(60 s) }
MainIdle ==
    /\ pcMain = "idle"
    /\ UNCHANGED vars

\* ------------------------------------------------------------ the request

\* Variant: the fields of the struct declared in the other order.
SlackMessageTextFirst(channel, text) ==
    <<[name |-> "text", value |-> text],
      [name |-> "channel", value |-> channel]>>

\* struct SlackMessage<'a> { channel: &'a str, text: &'a str }: the fields
\* in the order of the declaration.
SlackMessage(channel, text) ==
    <<[name |-> "channel", value |-> channel],
      [name |-> "text", value |-> text]>>

\* A JSON string literal.  The strings of the model hold no character that
\* JSON escapes.
Quoted(s) == "\"" \o s \o "\""

RECURSIVE Members(_, _)
\* The members of the object from field i on, separated by commas.
Members(message, i) ==
    IF i > Len(message) THEN ""
    ELSE Quoted(message[i].name) \o ":" \o Quoted(message[i].value)
         \o (IF i < Len(message) THEN "," ELSE "")
         \o Members(message, i + 1)

\* #[derive(Serialize)] through .json(&message): a compact JSON object, one
\* member per field, in the order of the fields.
ToJson(message) == "{" \o Members(message, 1) \o "}"

\* Variant: the channel identifier passed as the bearer token.
RequestChannelAsToken(r) ==
    [occurrence |-> datetime[r],
     token |-> args[r].channel,
     channel |-> args[r].channel,
     text |-> args[r].text,
     body |-> ToJson(SlackMessage(args[r].channel, args[r].text))]

\* The POST that task r sends: the bearer token and the serialized message,
\* tagged with the occurrence it is sent for.
Request(r) ==
    [occurrence |-> datetime[r],
     token |-> args[r].token,
     channel |-> args[r].channel,
     text |-> args[r].text,
     body |-> ToJson(SlackMessage(args[r].channel, args[r].text))]

\* ------------------------------------------------------------ run_schedule

\* let mut upcoming = schedule.upcoming(Utc): an iterator that starts after now.
TaskStart(r) ==
    /\ pc[r] = "start"
    /\ upcoming' = [upcoming EXCEPT ![r] = wall]
    /\ pc' = [pc EXCEPT ![r] = "pull"]
    /\ UNCHANGED <<mainVars, clockVars, args, datetime, instant, attempts,
                   completed, response, skipped>>

\* Variant: schedule.upcoming(Utc).next() inside the loop, a fresh iterator
\* from the current time at every request.
IterNextFromNow(r) == NextAfter(schedules[r], wall)

\* ScheduleIterator::next: the occurrence after the one yielded last, which
\* becomes the one yielded last.
IterNext(r) == NextAfter(schedules[r], upcoming[r])

\* Variant: a skip for every wait that is not positive.
ToStdOkPositiveOnly(duration) == duration > 0

\* chrono's Duration::to_std: an error for a negative duration only.
ToStdOk(duration) == duration >= 0

\* Variant: std::process::exit in place of break.
ExhaustedExitsProcess(r) ==
    /\ pc' = [t \in Tasks |-> "done"]
    /\ UNCHANGED <<upcoming, datetime, instant, skipped>>

\* The else branch of `if let Some(datetime)`: log and break.
Exhausted(r) ==
    /\ pc' = [pc EXCEPT ![r] = "done"]
    /\ UNCHANGED <<upcoming, datetime, instant, skipped>>

\* Variant: break in place of continue.
SkipBreaks(r, next) ==
    /\ pc' = [pc EXCEPT ![r] = "done"]
    /\ skipped' = [skipped EXCEPT ![r] = @ \cup {next}]
    /\ UNCHANGED instant

\* Variant: a past-due occurrence is sent at once.
SkipCatchesUp(r, next) ==
    /\ pc' = [pc EXCEPT ![r] = "sleeping"]
    /\ skipped' = [skipped EXCEPT ![r] = @ \cup {next}]
    /\ instant' = [instant EXCEPT ![r] = mono]

\* The Err arm of to_std: log and continue, without sleeping or sending.
Skip(r, next) ==
    /\ pc' = [pc EXCEPT ![r] = "pull"]
    /\ skipped' = [skipped EXCEPT ![r] = @ \cup {next}]
    /\ UNCHANGED instant

\* Variant: the deadline is Instant::now(), the wait is not added.
SleepNoWait(r, duration) ==
    /\ instant' = [instant EXCEPT ![r] = mono]
    /\ pc' = [pc EXCEPT ![r] = "sleeping"]
    /\ UNCHANGED skipped

\* let instant = Instant::now() + duration_std, then sleep_until(instant).
Sleep(r, duration) ==
    /\ instant' = [instant EXCEPT ![r] = mono + duration]
    /\ pc' = [pc EXCEPT ![r] = "sleeping"]
    /\ UNCHANGED skipped

\* One pass from the top of the loop to the sleep: upcoming.next(), the wait
\* from Utc::now(), then the exit (no occurrence), the skip (to_std fails) or
\* the deadline on the monotonic clock.  The previous iteration's response
\* went out of scope at the end of its match.
Pull(r) ==
    /\ pc[r] = "pull"
    /\ LET next == IterNext(r)
           duration == next - wall IN
       IF next = NoTime
       THEN Exhausted(r)
       ELSE /\ upcoming' = [upcoming EXCEPT ![r] = next]
            /\ datetime' = [datetime EXCEPT ![r] = next]
            /\ IF ToStdOk(duration) THEN Sleep(r, duration) ELSE Skip(r, next)
    /\ response' = [response EXCEPT ![r] = NoValue]
    /\ UNCHANGED <<mainVars, clockVars, args, attempts, completed>>

\* Variant: the request is spawned, not awaited.
WakeFireAndForget(r) ==
    /\ pc[r] = "sleeping"
    /\ mono >= instant[r]
    /\ attempts' = [attempts EXCEPT ![r] =
                      Append(@, Request(r))]
    /\ pc' = [pc EXCEPT ![r] = "pull"]
    /\ instant' = [instant EXCEPT ![r] = NoTime]
    /\ UNCHANGED <<mainVars, clockVars, args, upcoming, datetime,
                   completed, response, skipped>>

\* Variant: the client is behind a lock that a request in flight holds.
WakeSerialized(r) ==
    /\ pc[r] = "sleeping"
    /\ mono >= instant[r]
    /\ pc[Other(r)] # "sending"
    /\ attempts' = [attempts EXCEPT ![r] =
                      Append(@, Request(r))]
    /\ pc' = [pc EXCEPT ![r] = "sending"]
    /\ instant' = [instant EXCEPT ![r] = NoTime]
    /\ UNCHANGED <<mainVars, clockVars, args, upcoming, datetime,
                   completed, response, skipped>>

\* Variant: the task sleeps until the wall clock shows the occurrence.
WakeOnWallClock(r) ==
    /\ pc[r] = "sleeping"
    /\ wall >= datetime[r]
    /\ attempts' = [attempts EXCEPT ![r] =
                      Append(@, Request(r))]
    /\ pc' = [pc EXCEPT ![r] = "sending"]
    /\ instant' = [instant EXCEPT ![r] = NoTime]
    /\ UNCHANGED <<mainVars, clockVars, args, upcoming, datetime,
                   completed, response, skipped>>

\* sleep_until(instant) returns, which consumes the deadline; the message is
\* built and posted.
Wake(r) ==
    /\ pc[r] = "sleeping"
    /\ mono >= instant[r]
    /\ attempts' = [attempts EXCEPT ![r] =
                      Append(@, Request(r))]
    /\ pc' = [pc EXCEPT ![r] = "sending"]
    /\ instant' = [instant EXCEPT ![r] = NoTime]
    /\ UNCHANGED <<mainVars, clockVars, args, upcoming, datetime,
                   completed, response, skipped>>

\* Variant: a failed request is sent again at once.
SendDoneRetry(r, outcome) ==
    /\ pc[r] = "sending"
    /\ completed' = [completed EXCEPT ![r] = @ + 1]
    /\ response' = [response EXCEPT ![r] = outcome]
    /\ IF outcome \in Failures
       THEN /\ pc' = [pc EXCEPT ![r] = "sleeping"]
            /\ instant' = [instant EXCEPT ![r] = mono]
       ELSE /\ pc' = [pc EXCEPT ![r] = "pull"]
            /\ UNCHANGED instant
    /\ UNCHANGED <<mainVars, clockVars, args, upcoming, datetime, attempts, skipped>>

\* Variant: the Err arm breaks out of the loop.
SendDoneExitOnError(r, outcome) ==
    /\ pc[r] = "sending"
    /\ completed' = [completed EXCEPT ![r] = @ + 1]
    /\ response' = [response EXCEPT ![r] = outcome]
    /\ pc' = [pc EXCEPT ![r] = IF outcome = "transport_error" THEN "done" ELSE "pull"]
    /\ UNCHANGED <<mainVars, clockVars, args, upcoming, datetime, instant, attempts,
                   skipped>>

\* Variant: a delivered reminder ends the task.
SendDoneOnce(r, outcome) ==
    /\ pc[r] = "sending"
    /\ completed' = [completed EXCEPT ![r] = @ + 1]
    /\ response' = [response EXCEPT ![r] = outcome]
    /\ pc' = [pc EXCEPT ![r] = IF outcome = "success" THEN "done" ELSE "pull"]
    /\ UNCHANGED <<mainVars, clockVars, args, upcoming, datetime, instant, attempts,
                   skipped>>

\* .send().await returns: every arm of the match logs and falls through to
\* the top of the loop.
SendDone(r, outcome) ==
    /\ pc[r] = "sending"
    /\ completed' = [completed EXCEPT ![r] = @ + 1]
    /\ response' = [response EXCEPT ![r] = outcome]
    /\ pc' = [pc EXCEPT ![r] = "pull"]
    /\ UNCHANGED <<mainVars, clockVars, args, upcoming, datetime, instant, attempts,
                   skipped>>

\* ------------------------------------------------------------------ clocks

\* A task that is neither asleep before its deadline nor waiting for a
\* response has a step to take.
Runnable(r) ==
    \/ pc[r] \in {"start", "pull"}
    \/ pc[r] = "sleeping" /\ mono >= instant[r]

\* One hour passes on both clocks, when main idles and no task has a step to
\* take (a request in flight may return at any time, or never).
Tick ==
    /\ pcMain = "idle"
    /\ \A r \in Tasks : ~ Runnable(r)
    /\ mono < MaxMono
    /\ mono' = mono + 1
    /\ wall' = wall + 1
    /\ UNCHANGED <<mainVars, nAdjust, taskVars>>

\* The wall clock is stepped; the monotonic clock is not.
AdjustWall(d) ==
    /\ pcMain = "idle"
    /\ \A r \in Tasks : ~ Runnable(r)
    /\ nAdjust < MaxAdjust
    /\ wall + d >= 0
    /\ wall' = wall + d
    /\ nAdjust' = nAdjust + 1
    /\ UNCHANGED <<mainVars, mono, taskVars>>

\* ----------------------------------------------------------- specification

Next ==
    \/ ReadEnv
    \/ ParseSchedules
    \/ \E r \in Tasks : SpawnTask(r)
    \/ MainIdle
    \/ \E r \in Tasks : TaskStart(r)
    \/ \E r \in Tasks : Pull(r)
    \/ \E r \in Tasks : Wake(r)
    \/ \E r \in Tasks, o \in Outcomes : SendDone(r, o)
    \/ Tick
    \/ \E d \in AdjustDeltas : AdjustWall(d)

Spec == Init /\ [][Next]_vars

MainStep == ReadEnv \/ ParseSchedules \/ \E r \in Tasks : SpawnTask(r)
TaskStep == \E r \in Tasks : TaskStart(r) \/ Pull(r) \/ Wake(r)

\* The code's scheduling: main runs on to its idle loop, tokio runs some
\* task while one can run, and time passes.  Nothing makes a request return
\* (no timeout is set), so SendDone is not fair.
Fairness ==
    /\ WF_vars(MainStep)
    /\ WF_vars(TaskStep)
    /\ WF_vars(Tick)

FairSpec == Spec /\ Fairness

\* The same program while nobody steps the wall clock.
NextSteady ==
    \/ ReadEnv
    \/ ParseSchedules
    \/ \E r \in Tasks : SpawnTask(r)
    \/ MainIdle
    \/ \E r \in Tasks : TaskStart(r)
    \/ \E r \in Tasks : Pull(r)
    \/ \E r \in Tasks : Wake(r)
    \/ \E r \in Tasks, o \in Outcomes : SendDone(r, o)
    \/ Tick

SteadyFairSpec == Init /\ [][NextSteady]_vars /\ Fairness

\* The steady program under the assumption that every request returns.
ReturningFairSpec ==
    /\ SteadyFairSpec
    /\ \A r \in Tasks : WF_vars(\E o \in Outcomes : SendDone(r, o))

\* The steady program started early on a Sunday, so that each schedule has
\* an occurrence on the day of the start and one in each later week.
SundayStart == {0}
SundayFairSpec == InitFrom(SundayStart) /\ [][NextSteady]_vars /\ Fairness

\* ------------------------------------------- the calculator on its own

\* The reference instants the iterator is started from: every hour of the
\* calendar.
References == 0..Horizon

\* Both tasks spawned, about to call schedule.upcoming(Utc), with the wall
\* clock at any reference instant.
CalcInit ==
    /\ env = [n \in EnvNames |-> EnvValue(n)]
    /\ pcMain = "idle"
    /\ slack_bot_token = env["SLACK_BOT_TOKEN"]
    /\ slack_channel_id = env["SLACK_CHANNEL_ID"]
    /\ schedules = [r \in Tasks |->
                      ScheduleFromStr(IF r = "2pm" THEN cron_expr_2pm
                                                   ELSE cron_expr_10pm)]
    /\ wall \in References
    /\ mono = 0
    /\ nAdjust = 0
    /\ pc = [r \in Tasks |-> "start"]
    /\ args = [r \in Tasks |->
                 [token |-> slack_bot_token, channel |-> slack_channel_id,
                  text |-> reminder_text]]
    /\ upcoming = [r \in Tasks |-> NoTime]
    /\ datetime = [r \in Tasks |-> NoTime]
    /\ instant = [r \in Tasks |-> NoTime]
    /\ attempts = [r \in Tasks |-> <<>>]
    /\ completed = [r \in Tasks |-> 0]
    /\ response = [r \in Tasks |-> NoValue]
    /\ skipped = [r \in Tasks |-> {}]

\* upcoming.next() and the `if let Some(datetime)` around it, without the
\* rest of the loop body: the iterator is drawn until it is exhausted.
UpcomingNext(r) ==
    /\ pc[r] = "pull"
    /\ LET next == IterNext(r) IN
       IF next = NoTime
       THEN /\ pc' = [pc EXCEPT ![r] = "done"]
            /\ UNCHANGED <<upcoming, datetime>>
       ELSE /\ upcoming' = [upcoming EXCEPT ![r] = next]
            /\ datetime' = [datetime EXCEPT ![r] = next]
            /\ UNCHANGED pc
    /\ UNCHANGED <<mainVars, clockVars, args, instant, attempts, completed,
                   response, skipped>>

CalcNext ==
    \/ \E r \in Tasks : TaskStart(r)
    \/ \E r \in Tasks : UpcomingNext(r)

CalcSpec == CalcInit /\ [][CalcNext]_vars

\* --------------------------------------------- the serializer on its own

Channels == {"C1", "C0123456789", "general"}
Texts == {"hello", "", reminder_text}

\* Sunday 14:00 of the second week, both tasks asleep since Saturday 23:00:
\* the 2 PM task is due, the 10 PM task has eight hours left.  Channel and
\* text are drawn from Channels and Texts.
JsonInit ==
    /\ slack_channel_id \in Channels
    /\ slack_bot_token = EnvValue("SLACK_BOT_TOKEN")
    /\ env = [n \in EnvNames |->
                IF n = "SLACK_BOT_TOKEN" THEN slack_bot_token ELSE slack_channel_id]
    /\ pcMain = "idle"
    /\ schedules = [r \in Tasks |->
                      ScheduleFromStr(IF r = "2pm" THEN cron_expr_2pm
                                                   ELSE cron_expr_10pm)]
    /\ wall = 7 * 24 + 14
    /\ mono = 15
    /\ nAdjust = 0
    /\ pc = [r \in Tasks |-> "sleeping"]
    /\ \E text \in Texts :
          args = [r \in Tasks |->
                    [token |-> slack_bot_token, channel |-> slack_channel_id,
                     text |-> text]]
    /\ upcoming = [r \in Tasks |-> NextAfter(schedules[r], 6 * 24 + 23)]
    /\ datetime = upcoming
    /\ instant = [r \in Tasks |-> datetime[r] - (6 * 24 + 23)]
    /\ attempts = [r \in Tasks |-> <<>>]
    /\ completed = [r \in Tasks |-> 0]
    /\ response = [r \in Tasks |-> NoValue]
    /\ skipped = [r \in Tasks |-> {}]

JsonNext ==
    \/ \E r \in Tasks : Wake(r)
    \/ Tick

JsonSpec == JsonInit /\ [][JsonNext]_vars

\* ---------------------------------------------------- vocabulary of the claims

\* The instants of the calendar that match each expression, found by
\* testing every hour.
Calendar2pm == {t \in 0..Horizon : Matches(ScheduleFromStr(cron_expr_2pm), t)}
Calendar10pm == {t \in 0..Horizon : Matches(ScheduleFromStr(cron_expr_10pm), t)}
Calendar(r) == IF r = "2pm" THEN Calendar2pm ELSE Calendar10pm

\* o is the earliest instant of task r's schedule strictly after t.
IsEarliestAfter(r, t, o) ==
    /\ o \in Calendar(r)
    /\ o > t
    /\ \A u \in Calendar(r) : u > t => o <= u

NoneAfter(r, t) == \A u \in Calendar(r) : u <= t

Occurrences(r) == {attempts[r][i].occurrence : i \in 1..Len(attempts[r])}

\* Task r takes an occurrence from its iterator in this step.
Yields(r) == pc[r] = "pull" /\ upcoming'[r] # upcoming[r]

\* Task r begins a request in this step.
Sends(r) == Len(attempts'[r]) > Len(attempts[r])

\* ------------------------------------------------------------------ claims

\* C1 as stated: whenever the wait computed for a pulled occurrence is zero
\* or negative, the task neither sleeps nor sends and is back at the top of
\* its loop.
C1_SkipsNonPositiveWait ==
    [][\A r \in Tasks :
         Yields(r) /\ upcoming'[r] - wall <= 0
           => pc'[r] = "pull" /\ instant'[r] = instant[r] /\ ~ Sends(r)]_vars

\* C1 as the code has it: an occurrence whose wait is negative is skipped
\* (no sleep, no request, back at the top of the loop, and no request for it
\* later either), while a wait of exactly zero is a sleep of length zero
\* followed by a request.
C1_SkipsNegativeWait ==
    /\ [][\A r \in Tasks :
            /\ Yields(r) /\ upcoming'[r] - wall < 0
                 => /\ pc'[r] = "pull"
                    /\ instant'[r] = instant[r]
                    /\ ~ Sends(r)
                    /\ upcoming'[r] \in skipped'[r]
            /\ Yields(r) /\ upcoming'[r] - wall >= 0
                 => /\ pc'[r] = "sleeping"
                    /\ instant'[r] = mono + (upcoming'[r] - wall)
                    /\ upcoming'[r] \notin skipped'[r]]_vars
    /\ [](\A r \in Tasks : Occurrences(r) \cap skipped[r] = {})

\* A task has just skipped a past-due occurrence: it is back at the top of
\* its loop and has sent nothing for it.
C1_Witness ==
    \E r \in Tasks :
        /\ pc[r] = "pull"
        /\ datetime[r] \in skipped[r]
        /\ datetime[r] < wall

\* C2: a task never sends twice for one occurrence, whatever the requests
\* returned.
C2_OneAttemptPerOccurrence ==
    \A r \in Tasks : \A i, j \in 1..Len(attempts[r]) :
        attempts[r][i].occurrence = attempts[r][j].occurrence => i = j

\* A task has sent for two occurrences and the second request failed.
C2_Witness ==
    \E r \in Tasks :
        /\ Len(attempts[r]) >= 2
        /\ completed[r] = Len(attempts[r])
        /\ response[r] \in Failures

\* The request of task r has failed, r is at the top of its loop and the
\* schedule's next occurrence is not yet past.
FailedWithFutureOccurrence(r) ==
    /\ pc[r] = "pull"
    /\ response[r] \in Failures
    /\ \E o \in Calendar(r) : IsEarliestAfter(r, upcoming[r], o) /\ o >= wall

\* C3: a request that fails (non-success status or transport error) leaves
\* the task at the top of its loop, not terminated; when the schedule's next
\* occurrence is not yet past, the task goes to sleep for that occurrence,
\* and it eventually sends a request, which is for the occurrence it slept
\* for.
C3_FailureDoesNotStop ==
    /\ [][\A r \in Tasks :
            /\ pc[r] = "sending" /\ response'[r] \in Failures => pc'[r] = "pull"
            /\ FailedWithFutureOccurrence(r) /\ pc'[r] # "pull"
                 => /\ pc'[r] = "sleeping"
                    /\ IsEarliestAfter(r, upcoming[r], datetime'[r])
            /\ Sends(r)
                 => /\ pc[r] = "sleeping"
                    /\ attempts'[r][Len(attempts'[r])].occurrence = datetime[r]]_vars
    /\ \A r \in Tasks : FailedWithFutureOccurrence(r) ~> (pc[r] = "sending")

\* A request ended in a transport error and the schedule's next occurrence
\* is still ahead.
C3_Witness ==
    \E r \in Tasks :
        /\ FailedWithFutureOccurrence(r)
        /\ response[r] = "transport_error"

\* C4: a task that has a step to take can take it whatever the other task
\* is doing; it begins its request at the very deadline it computed, which
\* is the occurrence's time when the wall clock was not stepped; and a step
\* of one task changes nothing of the other.
C4_NoInterference ==
    /\ [](\A r \in Tasks :
            Runnable(r) => ENABLED (TaskStart(r) \/ Pull(r) \/ Wake(r)))
    /\ [][\A r \in Tasks :
            /\ Sends(r) => /\ mono = instant[r]
                           /\ nAdjust = 0 => wall = datetime[r]
            /\ TaskState(r)' # TaskState(r)
                 => TaskState(Other(r))' = TaskState(Other(r))]_vars

\* The 10 PM task began its request for an occurrence while the request of
\* the 2 PM task for the earlier occurrence of that Sunday was in flight.
C4_Witness ==
    /\ pc["2pm"] = "sending"
    /\ pc["10pm"] = "sending"
    /\ datetime["10pm"] = datetime["2pm"] + 8

\* C5 as stated: every occurrence a task takes from its iterator is the
\* earliest one strictly after the wall-clock time of that request.
C5_NextIsRelativeToNow ==
    [][\A r \in Tasks :
         Yields(r) => IsEarliestAfter(r, wall, upcoming'[r])]_vars

\* C5 as the code has it: the iterator is created once, from the wall-clock
\* time at which the task starts; every occurrence taken from it is the
\* earliest one strictly after the occurrence taken before (after the start
\* time, for the first), whatever the wall clock reads at the request, and
\* the task ends only when the calendar holds no later occurrence.
C5_NextIsRelativeToPrevious ==
    [][\A r \in Tasks :
         /\ pc[r] = "start" /\ pc'[r] # "start" => upcoming'[r] = wall
         /\ Yields(r) => IsEarliestAfter(r, upcoming[r], upcoming'[r])
         /\ pc[r] = "pull" /\ pc'[r] = "done"
              => upcoming'[r] = upcoming[r] /\ NoneAfter(r, upcoming[r])]_vars

\* A task has taken an occurrence that a request longer than a schedule
\* period had left behind the wall clock.
C5_Witness ==
    \E r \in Tasks :
        /\ completed[r] >= 1
        /\ datetime[r] \in skipped[r]
        /\ wall > datetime[r]
        /\ nAdjust = 0

\* C6: the step by which a task ends on an exhausted iterator changes
\* nothing of the other task or of main, and beside a task that has ended
\* the other one still takes its steps: it can pull and wake when it is its
\* turn, and time passes while it sleeps.
C6_ExhaustionEndsOneTask ==
    /\ [][\A r \in Tasks :
            pc[r] # "done" /\ pc'[r] = "done"
              => /\ TaskState(Other(r))' = TaskState(Other(r))
                 /\ pcMain' = pcMain]_vars
    /\ [](\A r \in Tasks :
            pc[Other(r)] = "done"
              => /\ Runnable(r) => ENABLED (Pull(r) \/ Wake(r))
                 /\ pc[r] = "sleeping" /\ ~ Runnable(r) => ENABLED Tick
                 /\ pc[r] = "sending" => ENABLED SendDone(r, "success"))

\* The 2 PM task has ended and the 10 PM task is asleep, waiting for an
\* occurrence later than the last one of the 2 PM schedule.
C6_Witness ==
    /\ pc["2pm"] = "done"
    /\ pc["10pm"] = "sleeping"
    /\ mono < instant["10pm"]
    /\ datetime["10pm"] > upcoming["2pm"]

\* C7: a task ends only from the top of its loop and only when the calendar
\* holds no occurrence after the last one its iterator yielded: neither a
\* skipped occurrence nor any outcome of a request ends it.
C7_EndsOnlyWhenExhausted ==
    [][\A r \in Tasks :
         pc[r] # "done" /\ pc'[r] = "done"
           => pc[r] = "pull" /\ NoneAfter(r, upcoming[r])]_vars

\* A task has ended after it had a request return and had skipped an
\* occurrence.
C7_Witness ==
    \E r \in Tasks :
        /\ pc[r] = "done"
        /\ completed[r] >= 1
        /\ skipped[r] # {}

\* C8: one request, and no more, has been sent for the occurrence a task
\* has slept for; none was sent before the sleep ended; and the task is at
\* the top of its loop or ended only with every request it sent returned.
C8_OneSendPerWaitThenPull ==
    \A r \in Tasks :
        LET sent == {i \in 1..Len(attempts[r]) :
                        attempts[r][i].occurrence = datetime[r]} IN
        /\ pc[r] = "sleeping" => sent = {} /\ Len(attempts[r]) = completed[r]
        /\ pc[r] = "sending"
             => sent = {Len(attempts[r])} /\ Len(attempts[r]) = completed[r] + 1
        /\ pc[r] \in {"pull", "done"}
             => /\ Len(attempts[r]) = completed[r]
                /\ datetime[r] # NoTime /\ datetime[r] \notin skipped[r]
                     => sent = {Len(attempts[r])}

\* A task is back at the top of its loop with the second request it sent
\* returned.
C8_Witness ==
    \E r \in Tasks :
        /\ pc[r] = "pull"
        /\ completed[r] = 2
        /\ datetime[r] \notin skipped[r]

\* C9: the occurrences a task has sent for are in strictly increasing
\* order, and at most one of its requests has not returned.
C9_IncreasingAndSequential ==
    \A r \in Tasks :
        /\ \A i, j \in 1..Len(attempts[r]) :
             i < j => attempts[r][i].occurrence < attempts[r][j].occurrence
        /\ Len(attempts[r]) - completed[r] \in {0, 1}

\* Both tasks have a second request in flight.
C9_Witness ==
    \A r \in Tasks : Len(attempts[r]) = 2 /\ completed[r] = 1

\* C10: with an environment variable missing or an expression that does not
\* parse, main never reaches a spawn, no task exists and no request is sent.
C10_ConfigErrorIsFatal ==
    (\/ \E n \in EnvNames : env[n] = NoValue
     \/ ~ ScheduleFromStr(cron_expr_2pm).ok
     \/ ~ ScheduleFromStr(cron_expr_10pm).ok)
      => /\ pcMain \in {"env", "parse", "panicked"}
         /\ \A r \in Tasks : pc[r] = "unspawned" /\ attempts[r] = <<>>

\* main has panicked on the missing channel id, after it read the token.
C10_Witness ==
    /\ pcMain = "panicked"
    /\ env["SLACK_BOT_TOKEN"] # NoValue
    /\ env["SLACK_CHANNEL_ID"] = NoValue

\* The wall clock is stepped in this step (it moves and the monotonic clock
\* does not).
WallStepped == wall' # wall /\ mono' = mono

\* C11: the deadline of a sleep is the monotonic instant of the pull plus the
\* wait computed in that iteration; a step of the wall clock, forward or
\* backward, while a task sleeps leaves the task asleep with the same
\* deadline; and the task's request begins exactly when the monotonic clock
\* reaches that deadline, however the wall clock was stepped meanwhile.
C11_SleepIsMonotonic ==
    [][\A r \in Tasks :
         /\ Yields(r) /\ pc'[r] = "sleeping"
              => instant'[r] - mono = upcoming'[r] - wall
         /\ pc[r] = "sleeping" /\ WallStepped
              => pc'[r] = "sleeping" /\ instant'[r] = instant[r]
         /\ Sends(r) => mono = instant[r]]_vars

\* A task's sleep has run its computed length on the monotonic clock
\* while the wall clock, stepped during the sleep, does not show the
\* occurrence.
C11_Witness ==
    \E r \in Tasks :
        /\ pc[r] = "sleeping"
        /\ nAdjust > 0
        /\ mono = instant[r]
        /\ wall # datetime[r]

\* C12: the iterator starts at the reference instant; every occurrence it
\* yields is an instant of the expression, the earliest one strictly after
\* the reference (for the first) or after the occurrence yielded before (for
\* the later ones), so the yielded instants strictly increase; it ends only
\* when the calendar holds no later instant.  For "0 0 14 * * SUN" the
\* reference Saturday 23:00 yields Sunday 14:00, 15 hours later, and a
\* reference that is itself an occurrence yields the instant one week later.
C12_StrictlyAfterReference ==
    /\ [](\A r \in Tasks :
            datetime[r] # NoTime
              => datetime[r] \in Calendar(r) /\ datetime[r] > wall)
    /\ [][\A r \in Tasks :
            /\ pc[r] = "start" /\ pc'[r] = "pull" => upcoming'[r] = wall
            /\ pc[r] = "pull" /\ datetime'[r] # datetime[r]
                 => /\ IsEarliestAfter(r, upcoming[r], datetime'[r])
                    /\ upcoming'[r] = datetime'[r]
                    /\ datetime[r] = NoTime => upcoming[r] = wall
                    /\ datetime[r] # NoTime => datetime'[r] > datetime[r]
                    /\ upcoming[r] \in Calendar(r)
                         => datetime'[r] = upcoming[r] + 7 * 24
                    /\ r = "2pm" /\ upcoming[r] = 6 * 24 + 23
                         => /\ datetime'[r] = upcoming[r] + 15
                            /\ DayOfWeek(datetime'[r]) = 0
                            /\ HourOfDay(datetime'[r]) = 14
            /\ pc[r] = "pull" /\ pc'[r] = "done"
                 => NoneAfter(r, upcoming[r])]_vars

\* The iterator of the 2 PM schedule was started exactly at an occurrence
\* and its first yield is the occurrence of the week after.
C12_Witness ==
    /\ wall \in Calendar("2pm")
    /\ upcoming["2pm"] = wall + 7 * 24
    /\ datetime["2pm"] = upcoming["2pm"]

\* C13: the body of every request is a JSON object of exactly two members,
\* the string "channel" with the channel first and the string "text" with
\* the text second, with nothing else in it; channel "C1" and text "hello"
\* give {"channel":"C1","text":"hello"}.
C13_TwoFieldsInOrder ==
    \A r \in Tasks : \A i \in 1..Len(attempts[r]) :
        LET a == attempts[r][i] IN
        /\ a.body = "{\"channel\":\"" \o a.channel \o "\",\"text\":\""
                       \o a.text \o "\"}"
        /\ a.channel = "C1" /\ a.text = "hello"
             => a.body = "{\"channel\":\"C1\",\"text\":\"hello\"}"

\* A request for channel "C1" with the text "hello" has been sent.
C13_Witness ==
    \E r \in Tasks :
        /\ Len(attempts[r]) = 1
        /\ attempts[r][1].channel = "C1"
        /\ attempts[r][1].text = "hello"
        /\ Len(attempts[r][1].body) = 31

\* An occurrence of task r's schedule is still to be yielded and is not past.
HasLater(r) == \E o \in Calendar(r) : o > upcoming[r] /\ o >= wall

\* C14: when time advances and every request returns, a task whose request
\* is in flight is eventually back at the top of its loop, and a task at the
\* top of its loop whose schedule still holds an occurrence that is not past
\* eventually has a request in flight again; each such request is a further
\* attempt, for an occurrence later than every one it sent for before.  So
\* a task stops sending only when its schedule runs out.
C14_KeepsSending ==
    /\ [][\A r \in Tasks :
            pc[r] # "sending" /\ pc'[r] = "sending"
              => /\ Len(attempts'[r]) = Len(attempts[r]) + 1
                 /\ \A o \in Occurrences(r) :
                      o < attempts'[r][Len(attempts'[r])].occurrence]_vars
    /\ \A r \in Tasks :
         /\ (pc[r] = "sending") ~> (pc[r] = "pull")
         /\ (pc[r] = "pull" /\ HasLater(r)) ~> (pc[r] = "sending")

\* A task's first request has returned and its second one is in flight.
C14_Witness ==
    \E r \in Tasks :
        /\ pc[r] = "sending"
        /\ Len(attempts[r]) = 2
        /\ completed[r] = 1
        /\ pc[Other(r)] # "sending"

\* What main hands to each task at its spawn.
StartupArgs ==
    [token |-> env["SLACK_BOT_TOKEN"], channel |-> env["SLACK_CHANNEL_ID"],
     text |-> reminder_text]

\* C15: every request of either task carries the token and the channel
\* read from the environment at startup and the reminder text, and its body
\* is the serialized message of that channel and text; no step changes the
\* environment, and from a task's spawn on no step changes its token, its
\* channel or its text.
C15_RequestsCarryStartupValues ==
    /\ [](\A r \in Tasks :
            /\ pc[r] # "unspawned" => args[r] = StartupArgs
            /\ \A i \in 1..Len(attempts[r]) :
                 /\ attempts[r][i].token = StartupArgs.token
                 /\ attempts[r][i].channel = StartupArgs.channel
                 /\ attempts[r][i].text = StartupArgs.text
                 /\ attempts[r][i].body
                      = ToJson(SlackMessage(StartupArgs.channel, StartupArgs.text)))
    /\ [][/\ env' = env
          /\ \A r \in Tasks : pc[r] # "unspawned" => args'[r] = args[r]
          /\ \A r \in Tasks : \A i \in 1..Len(attempts[r]) :
               attempts'[r][i] = attempts[r][i]]_vars

\* Both tasks are in their second iteration or beyond and each has sent.
C15_Witness ==
    \A r \in Tasks :
        /\ Len(attempts[r]) >= 1
        /\ completed[r] >= 1
        /\ attempts[r][1].token = "xoxb-token"
        /\ attempts[r][1].channel = "C1"

\* C16: while the wall clock has never been stepped (both clocks have
\* advanced together since startup), a task begins a request only when the
\* wall clock has reached the occurrence the request is for, and the request
\* is for the occurrence the task slept for.
C16_NeverFiresEarly ==
    [][\A r \in Tasks :
         Sends(r) /\ nAdjust = 0
           => /\ attempts'[r][Len(attempts'[r])].occurrence = datetime[r]
              /\ wall >= datetime[r]
              /\ wall - datetime[r] = mono - instant[r]]_vars

\* With the wall clock never stepped, a task has begun the request of its
\* second occurrence at that occurrence's time.
C16_Witness ==
    \E r \in Tasks :
        /\ nAdjust = 0
        /\ pc[r] = "sending"
        /\ Len(attempts[r]) = 2
        /\ attempts[r][2].occurrence = wall

\* An occurrence of task r's schedule is still to be yielded and is past.
PastDue(r) == \E o \in Calendar(r) : o > upcoming[r] /\ o < wall

\* C17: a task that is back at the top of its loop after a delay, with
\* occurrences that have passed meanwhile and one that has not, eventually
\* sleeps for an occurrence that is not past, having logged a skip; every
\* skip is for a past occurrence later than the one yielded before it (so
\* there are only as many skips as occurrences have passed), it begins no
\* request, and no request is ever sent for a skipped occurrence.
C17_SkipLoopEnds ==
    /\ [](\A r \in Tasks : skipped[r] \cap Occurrences(r) = {})
    /\ [][\A r \in Tasks :
            skipped'[r] # skipped[r]
              => /\ pc'[r] = "pull"
                 /\ ~ Sends(r)
                 /\ skipped'[r] = skipped[r] \cup {datetime'[r]}
                 /\ datetime'[r] < wall
                 /\ datetime'[r] > upcoming[r]]_vars
    /\ \A r \in Tasks :
         (pc[r] = "pull" /\ PastDue(r) /\ HasLater(r))
           ~> (pc[r] = "sleeping" /\ datetime[r] >= wall /\ skipped[r] # {})

\* A request took so long that the following occurrence passed: the task
\* has skipped it and sleeps for the one after.
C17_Witness ==
    \E r \in Tasks :
        /\ pc[r] = "sleeping"
        /\ Len(attempts[r]) = 1
        /\ completed[r] = 1
        /\ skipped[r] # {}
        /\ \A s \in skipped[r] : s > attempts[r][1].occurrence /\ s < datetime[r]
        /\ datetime[r] >= wall

\* C18: once both tasks are spawned main is in its idle loop, and a step
\* taken while main idles leaves it idling, whether both tasks run, one has
\* ended or both have; main is never anywhere but on its way to the loop, in
\* the loop, or stopped by a startup panic with no task spawned.
C18_MainNeverExits ==
    /\ [](/\ pcMain \in {"env", "parse", "spawn_2pm", "spawn_10pm", "idle",
                         "panicked"}
          /\ (\A r \in Tasks : pc[r] # "unspawned") => pcMain = "idle"
          /\ (\E r \in Tasks : pc[r] = "done") => pcMain = "idle")
    /\ [][pcMain = "idle" => pcMain' = "idle"]_vars

\* Both tasks have ended and main idles on.
C18_Witness ==
    /\ pcMain = "idle"
    /\ \A r \in Tasks : pc[r] = "done"

====
